---- MODULE Spec2Model ----
(***************************************************************************)
(* A model of config-gen: the schema visitor and class emitter of          *)
(* config-gen.cc and the runtime adaptors of config-generic.h that the     *)
(* generated accessors call.                                               *)
(*                                                                         *)
(* 64-bit quantities do not fit the model checker's integers, so an        *)
(* integer is kept as five limbs in base 2^16, least significant first,    *)
(* the first four in 0..2^16-1 and the last one signed.  Every integer in  *)
(* -2^79..2^79-1 has exactly one such form, so equality of forms is        *)
(* equality of integers.                                                   *)
(***************************************************************************)
EXTENDS Integers, Sequences, FiniteSets, TLC

VARIABLES
    pc,         \* position of the run: "schema", "generated" or "called"
    ub,         \* what this build does on an out-of-range floating cast
    schema,     \* the root Object of the parsed schema
    visit,      \* the SchemaVisitor v of emit_class's first property
    out,        \* the text emit_class wrote
    docv,       \* the document node the generated root class is built on
    call,       \* the accessors called so far, outermost first
    recv,       \* the instance the last accessor was called on
    got,        \* what the last accessor returned
    range,      \* a Range: its array and its IterateProperties parameter
    it,         \* the Iter that walks range
    seen,       \* the nodes the walk has dereferenced so far
    heap,       \* reference counts of the UCL nodes, and what was freed
    handles,    \* the UCLPtr objects: not alive, or what obj points to
    guard,      \* make_config: the state of the initialization of its static
    validator,  \* make_config: what its static schema points to
    parses,     \* make_config: how often the embedded schema was parsed
    threads,    \* make_config: each thread's position, document and result
    argv,       \* main: the command line and the files it names
    configNamespace,    \* main: the namespace option's value or the default
    configClass,        \* main: the class option's value or the default
    embedSchema,        \* main: whether the embed option was given
    file_out,   \* main: whether the output file stream was constructed
    file,       \* main: the output file on disk: absent, old, or opened
    status      \* main: the exit status, once main has returned

rangeVars == <<range, it, seen>>

ptrVars == <<heap, handles>>

factoryVars == <<guard, validator, parses, threads>>

mainVarsButStatus == <<argv, configNamespace, configClass, embedSchema, file_out, file>>

mainVars == <<argv, configNamespace, configClass, embedSchema, file_out, file, status>>

vars == <<pc, ub, schema, visit, out, docv, call, recv, got, rangeVars, ptrVars, factoryVars, mainVars>>

----------------------------------------------------------------------------
(* Integers wider than the checker's own.                                  *)

\* The element of a set of one element.  C++ computes the arguments of a
\* call, and the value a local is set to, before it goes on: where that
\* order is to be kept, the value is drawn from the set that holds it.
The(S) == CHOOSE x \in S : TRUE

Base == 2^16

\* Carry propagation: brings five limbs of any sign into the unique form.
Norm(s) ==
    LET t1 == s[1]
        t2 == s[2] + (t1 \div Base)
        t3 == s[3] + (t2 \div Base)
        t4 == s[4] + (t3 \div Base)
        t5 == s[5] + (t4 \div Base)
    IN  <<t1 % Base, t2 % Base, t3 % Base, t4 % Base, t5>>

BigOf(n) == Norm(<<n, 0, 0, 0, 0>>)

Add(a, b) == Norm(<<a[1] + b[1], a[2] + b[2], a[3] + b[3], a[4] + b[4], a[5] + b[5]>>)

Neg(a) == Norm(<<-a[1], -a[2], -a[3], -a[4], -a[5]>>)

Pow2(k) ==
    LET at == (k \div 16) + 1
    IN  <<IF at = 1 THEN 2^(k % 16) ELSE 0, IF at = 2 THEN 2^(k % 16) ELSE 0,
          IF at = 3 THEN 2^(k % 16) ELSE 0, IF at = 4 THEN 2^(k % 16) ELSE 0,
          IF at = 5 THEN 2^(k % 16) ELSE 0>>

\* a < b, deciding on the most significant limb where they differ.
Less(a, b) ==
    \/ a[5] < b[5]
    \/ a[5] = b[5] /\ a[4] < b[4]
    \/ a[5] = b[5] /\ a[4] = b[4] /\ a[3] < b[3]
    \/ a[5] = b[5] /\ a[4] = b[4] /\ a[3] = b[3] /\ a[2] < b[2]
    \/ a[5] = b[5] /\ a[4] = b[4] /\ a[3] = b[3] /\ a[2] = b[2] /\ a[1] < b[1]

Leq(a, b) == ~Less(b, a)

MaxB(a, b) == IF Less(a, b) THEN b ELSE a

MinB(a, b) == IF Less(b, a) THEN b ELSE a

IsNeg(a) == a[5] < 0

\* The value mod 2^bits, for the widths the adaptors use.
ModPow2(a, bits) ==
    CASE bits = 64 -> <<a[1], a[2], a[3], a[4], 0>>
      [] bits = 32 -> <<a[1], a[2], 0, 0, 0>>
      [] bits = 16 -> <<a[1], 0, 0, 0, 0>>
      [] bits = 8  -> <<a[1] % 256, 0, 0, 0, 0>>

\* The remainder of a by a small q > 0 (q < 2^14), by Horner's rule.
ModSmall(a, q) ==
    LET r5 == a[5] % q
        r4 == (r5 * Base + a[4]) % q
        r3 == (r4 * Base + a[3]) % q
        r2 == (r3 * Base + a[2]) % q
    IN  (r2 * Base + a[1]) % q

INT64_MIN == Neg(Pow2(63))

INT64_MAX == Add(Pow2(63), BigOf(-1))

UINT64_MAX == Add(Pow2(64), BigOf(-1))

----------------------------------------------------------------------------
(* Doubles.  The model's doubles are whole numbers and halves: trunc is    *)
(* the value rounded toward zero, frac in {-1, 0, 1} counts the halves     *)
(* beyond it and has the sign of the value.                                *)

Whole(b) == [trunc |-> b, frac |-> 0]

Half(b, f) == [trunc |-> b, frac |-> f]

DLess(x, y) == Less(x.trunc, y.trunc) \/ (x.trunc = y.trunc /\ x.frac < y.frac)

DLeq(x, y) == ~DLess(y, x)

\* std::optional<double> as make_optional<DoubleAdaptor> returns it.
None == [some |-> FALSE]

Some(d) == [some |-> TRUE, val |-> d]

value_or(opt, dflt) == IF opt.some THEN opt.val ELSE dflt

\* The outcomes of a floating-to-integer cast whose value the target cannot
\* hold (undefined behaviour): x86-64 yields the "integer indefinite"
\* pattern, AArch64 saturates.
UBOutcomes == {"indefinite", "saturate"}

\* static_cast<int64_t>(double)
DoubleToInt64(d, u) ==
    IF Leq(INT64_MIN, d.trunc) /\ Leq(d.trunc, INT64_MAX)
    THEN d.trunc
    ELSE IF u = "indefinite" THEN INT64_MIN
         ELSE IF IsNeg(d.trunc) THEN INT64_MIN ELSE INT64_MAX

\* The implicit int64_t -> double conversion of value_or's argument: exact
\* for every value of at most 53 significant bits, which all int64 values
\* the visitor holds are, except INT64_MAX, which rounds up to 2^63.
Int64ToDouble(i) == IF i = INT64_MAX THEN Whole(Pow2(63)) ELSE Whole(i)

\* (uint64_t)double
DoubleToUInt64(d, u) ==
    IF ~IsNeg(d.trunc) /\ Leq(d.trunc, UINT64_MAX)
    THEN d.trunc
    ELSE IF u = "saturate"
         THEN IF IsNeg(d.trunc) THEN BigOf(0) ELSE UINT64_MAX
         ELSE IF IsNeg(d.trunc) THEN ModPow2(d.trunc, 64) ELSE BigOf(0)

\* (double)uint64_t: values within 1024 of 2^64 round to 2^64; the others
\* the model meets have at most 53 significant bits and are exact.
UInt64ToDouble(n) ==
    IF Leq(Add(Pow2(64), BigOf(-1024)), n) THEN Whole(Pow2(64)) ELSE Whole(n)

----------------------------------------------------------------------------
(* Numeric resolution: SchemaVisitor::handleNumber.                        *)

\* The candidate types in the order handleNumber probes them.
IntTypes ==
    << [ty |-> <<"int64_t">>,  a |-> <<"Int64Adaptor">>,  bits |-> 64, signed |-> TRUE],
       [ty |-> <<"uint64_t">>, a |-> <<"UInt64Adaptor">>, bits |-> 64, signed |-> FALSE],
       [ty |-> <<"int32_t">>,  a |-> <<"Int32Adaptor">>,  bits |-> 32, signed |-> TRUE],
       [ty |-> <<"uint32_t">>, a |-> <<"UInt32Adaptor">>, bits |-> 32, signed |-> FALSE],
       [ty |-> <<"int16_t">>,  a |-> <<"Int16Adaptor">>,  bits |-> 16, signed |-> TRUE],
       [ty |-> <<"uint16_t">>, a |-> <<"UInt16Adaptor">>, bits |-> 16, signed |-> FALSE],
       [ty |-> <<"int8_t">>,   a |-> <<"Int8Adaptor">>,   bits |-> 8,  signed |-> TRUE],
       [ty |-> <<"uint8_t">>,  a |-> <<"UInt8Adaptor">>,  bits |-> 8,  signed |-> FALSE] >>

\* std::numeric_limits<T>::min() and ::max()
TypeMin(t) == IF t.signed THEN Neg(Pow2(t.bits - 1)) ELSE BigOf(0)

TypeMax(t) ==
    IF t.signed THEN Add(Pow2(t.bits - 1), BigOf(-1)) ELSE Add(Pow2(t.bits), BigOf(-1))

\* std::numeric_limits<T> of the candidate types, by the name of T.
numeric_limits ==
    [ty \in {IntTypes[i].ty : i \in 1..Len(IntTypes)} |->
        LET t == IntTypes[CHOOSE i \in 1..Len(IntTypes) : IntTypes[i].ty = ty]
        IN  [min |-> TypeMin(t), max |-> TypeMax(t)]]

\* The conversion of an int64_t operand to uint64_t.
ToUInt64(a) == ModPow2(a, 64)

\* The test of try_type.  min and max are int64_t; against uint64_t limits
\* the usual arithmetic conversions turn them into uint64_t, against every
\* other candidate the limits are widened to int64_t.
TypeFits(t, min, max) ==
    IF t.bits = 64 /\ ~t.signed
    THEN /\ Leq(numeric_limits[t.ty].min, ToUInt64(min))
         /\ Leq(ToUInt64(max), numeric_limits[t.ty].max)
    ELSE Leq(numeric_limits[t.ty].min, min) /\ Leq(max, numeric_limits[t.ty].max)

try_type(cur, t, min, max) ==
    IF TypeFits(t, min, max)
    THEN [cur EXCEPT !.return_type = t.ty, !.adaptor = t.a]
    ELSE cur

\* The calls of try_type from the i-th on, one after the other: every call
\* whose type fits overwrites what the calls before it have set, so that
\* the result is set by the last call whose type fits, if there is one.
ProbeFrom(i, cur, min, max) ==
    LET fits == {j \in i..Len(IntTypes) : TypeFits(IntTypes[j], min, max)}
    IN  IF fits = {} THEN cur
        ELSE try_type(cur, IntTypes[CHOOSE j \in fits : \A h \in fits : h <= j], min, max)

\* (double)(uint64_t)*multipleOf == *multipleOf
MultipleOfIsWhole(m, u) == UInt64ToDouble(DoubleToUInt64(m, u)) = m

\* isInteger after the multipleOf test.
IsIntegral(n, isInteger, u) ==
    IF ~isInteger /\ n.multipleOf.some
    THEN MultipleOfIsWhole(n.multipleOf.val, u)
    ELSE isInteger

\* The locals min and max of handleNumber after the four std::max/std::min.
BoundMin(n, u) ==
    The({MaxB(min1, DoubleToInt64(value_or(n.exclusiveMinimum, Int64ToDouble(min1)), u)) :
            min1 \in {MaxB(INT64_MIN,
                            DoubleToInt64(value_or(n.minimum, Int64ToDouble(INT64_MIN)), u))}})

BoundMax(n, u) ==
    The({MinB(max1, DoubleToInt64(value_or(n.exclusiveMaximum, Int64ToDouble(max1)), u)) :
            max1 \in {MinB(INT64_MAX,
                            DoubleToInt64(value_or(n.maximum, Int64ToDouble(INT64_MAX)), u))}})

\* The namespace of the helpers of config-generic.h, unless the command
\* line overrides it.
DefaultNamespace == <<"::", "config", "::", "detail", "::">>

\* SchemaVisitor(n, t): the string views start empty and adaptorNamespace
\* is configNamespace.  types is the text this visit appends to the stream
\* it was given; integral, min and max show handleNumber's locals.
NewVisitor(ns) ==
    [return_type |-> <<>>, adaptor |-> <<>>, adaptorNamespace |-> ns,
     lifetimeAttribute |-> <<>>, types |-> <<>>,
     integral |-> FALSE, min |-> INT64_MIN, max |-> INT64_MAX]

handleNumber(v, n, isInteger, u) ==
    IF ~IsIntegral(n, isInteger, u)
    THEN [v EXCEPT !.return_type = <<"double">>, !.adaptor = <<"DoubleAdaptor">>]
    ELSE The({ProbeFrom(1, [v EXCEPT !.integral = TRUE, !.min = min, !.max = max],
                        min, max) :
                 min \in {BoundMin(n, u)}, max \in {BoundMax(n, u)}})

----------------------------------------------------------------------------
(* The runtime adaptors of config-generic.h over document nodes.  A node   *)
(* is a record with a type tag t; NullPtr is the null pointer that a       *)
(* failed lookup returns.                                                  *)

NullPtr == [t |-> "nullptr"]

IntNode(b) == [t |-> "int", v |-> b]

FloatNode(d) == [t |-> "float", d |-> d]

\* ucl_object_toint, the Conversion of the integer adaptors: the stored
\* integer, a float cast to int64_t, and 0 for anything else.
ucl_object_toint(o, u) ==
    CASE o.t = "int" -> o.v
      [] o.t = "float" -> DoubleToInt64(o.d, u)
      [] OTHER -> BigOf(0)

\* ucl_object_todouble, the Conversion of DoubleAdaptor.
ucl_object_todouble(o) ==
    CASE o.t = "int" -> Int64ToDouble(o.v)
      [] o.t = "float" -> o.d
      [] OTHER -> Whole(BigOf(0))

\* static_cast<NumberType>(int64_t) for the integer type t: reduction
\* mod 2^bits, read as two's complement when t is signed.
StaticCast(t, v) ==
    LET m == ModPow2(v, t.bits)
    IN  IF t.signed /\ Leq(Pow2(t.bits - 1), m) THEN Add(m, Neg(Pow2(t.bits))) ELSE m

IntTypeOf(a) == CHOOSE i \in 1..Len(IntTypes) : IntTypes[i].a = a

IsIntAdaptor(a) == \E i \in 1..Len(IntTypes) : IntTypes[i].a = a

\* NumberAdaptor<NumberType, Conversion>::operator NumberType()
NumberAdaptor(a, o, u) ==
    IF a = <<"DoubleAdaptor">>
    THEN [k |-> "double", d |-> ucl_object_todouble(o)]
    ELSE [k |-> "int",
          v |-> The({StaticCast(IntTypes[IntTypeOf(a)], i) : i \in {ucl_object_toint(o, u)}})]

----------------------------------------------------------------------------
(* Schema nodes.  Text is a sequence of symbols: a letter, a punctuation   *)
(* mark, or one of the words the generator appends ("Class", "Item"),      *)
(* which no sequence of the other symbols spells.  A schema node is the    *)
(* UCL object of the schema document with one field per key of the schema  *)
(* vocabulary, holding what the accessor of that key returns: type is      *)
(* StringViewAdaptor(obj["type"]), empty when the key is missing;          *)
(* properties is the key/value sequence of obj["properties"] in document   *)
(* order; required and description are the optionals of their accessors.   *)

NoText == [some |-> FALSE]

SomeText(s) == [some |-> TRUE, val |-> s]

NoRequired == [some |-> FALSE]

Required(names) == [some |-> TRUE, names |-> names]

Schema(ty) ==
    [t |-> "object", type |-> ty, properties |-> <<>>, required |-> NoRequired,
     items |-> NullPtr, description |-> NoText,
     minimum |-> None, exclusiveMinimum |-> None, maximum |-> None,
     exclusiveMaximum |-> None, multipleOf |-> None]

Prop(key, val) == [key |-> key, val |-> val]

\* SchemaBase::get(): the string NamedTypeAdaptor::visit dispatches on.
TypeOf(node) == IF node.t = "object" THEN node.type ELSE <<>>

\* SchemaBase::description()
DescriptionOf(node) == IF node.t = "object" THEN node.description ELSE NoText

\* Array::items(): SchemaBase(obj["items"])
ItemsOf(node) == IF node.t = "object" THEN node.items ELSE NullPtr

----------------------------------------------------------------------------
(* SchemaVisitor and emit_class.  The generated text is a sequence of      *)
(* tokens, one per group of insertions into the stream:                    *)
(*   class   "class NAME{" configNamespace "UCLPtr obj; public:"           *)
(*   ctor    "NAME(const ucl_object_t *o) : obj(o) {}"                     *)
(*   doc     the description as a comment                                  *)
(*   method  one accessor, required or optional form                       *)
(*   end     "};"                                                          *)

\* std::replace(begin, end, '-', '_') on the method name.
Sanitize(s) == [i \in 1..Len(s) |-> IF s[i] = "-" THEN "_" ELSE s[i]]

\* The set built from o.required(); empty when the key is missing.
RequiredBySanitizedName(o) ==
    IF o.required.some
    THEN {Sanitize(o.required.names[i]) : i \in 1..Len(o.required.names)}
    ELSE {}

RequiredProperties(o) ==
    IF o.required.some
    THEN {o.required.names[i] : i \in 1..Len(o.required.names)}
    ELSE {}

ClassToken(name, ns) == [k |-> "class", name |-> name, handle |-> ns \o <<"UCLPtr">>]

CtorToken(name) == [k |-> "ctor", name |-> name]

DocToken(text) == [k |-> "doc", text |-> text]

EndToken == [k |-> "end"]

\* The two forms of accessor emit_class writes.
MethodToken(v, method_name, prop_name, isRequired, ns) ==
    IF isRequired
    THEN [k |-> "method", optional |-> FALSE, return_type |-> v.return_type,
          name |-> method_name, lifetime |-> v.lifetimeAttribute, maker |-> <<>>,
          adaptorNamespace |-> v.adaptorNamespace, adaptor |-> v.adaptor,
          key |-> prop_name]
    ELSE [k |-> "method", optional |-> TRUE, return_type |-> v.return_type,
          name |-> method_name, lifetime |-> v.lifetimeAttribute,
          maker |-> ns \o <<"::", "make_optional", "<">>,
          adaptorNamespace |-> v.adaptorNamespace, adaptor |-> v.adaptor,
          key |-> prop_name]

\* out << types.str(); out << methods.str(); between the header and "};".
AssembleMethodsFirst(name, ns, types, methods) ==
    <<ClassToken(name, ns), CtorToken(name)>> \o methods \o types \o <<EndToken>>

Assemble(name, ns, types, methods) ==
    <<ClassToken(name, ns), CtorToken(name)>> \o types \o methods \o <<EndToken>>

\* SchemaBase::TypeAdaptor: the type strings and the variants they name.
TypeAdaptor ==
    << [key |-> <<"object">>, type |-> "Object"], [key |-> <<"array">>, type |-> "Array"],
       [key |-> <<"string">>, type |-> "String"], [key |-> <<"integer">>, type |-> "Integer"],
       [key |-> <<"boolean">>, type |-> "Boolean"], [key |-> <<"number">>, type |-> "Number"] >>

\* NamedTypeAdaptor::visit_impl<T, I>: the variants the visitor is called
\* with, one after the other.
RECURSIVE visit_impl_or_last(_, _)
visit_impl_or_last(key, I) ==
    IF key = TypeAdaptor[I].key \/ I = Len(TypeAdaptor) THEN <<TypeAdaptor[I].type>>
    ELSE visit_impl_or_last(key, I + 1)

RECURSIVE visit_impl(_, _)
visit_impl(key, I) ==
    IF key = TypeAdaptor[I].key THEN <<TypeAdaptor[I].type>>
    ELSE IF I + 1 <= Len(TypeAdaptor) THEN visit_impl(key, I + 1)
    ELSE <<>>

RECURSIVE emit_class(_, _, _, _), VisitSchema(_, _, _, _), EmitProperties(_, _, _, _, _)
RECURSIVE EmitPropertiesUntilUnresolved(_, _, _, _, _)

\* prop.get().visit(v) for a visitor SchemaVisitor(name, types): the
\* overload of operator() that the type string selects, or none.
VisitSchema(node, name, ns, u) ==
    LET v == NewVisitor(ns)
        called == visit_impl(TypeOf(node), 1)
    IN  CASE called = <<"Object">> ->
               LET className == name \o <<"Class">>
               IN  [v EXCEPT !.types = emit_class(node, className, ns, u),
                             !.return_type = className, !.adaptor = className,
                             !.adaptorNamespace = <<>>]
          [] called = <<"Array">> ->
               LET item == VisitSchema(ItemsOf(node), name \o <<"Item">>, ns, u)
                   className == ns \o <<"::", "Range", "<">> \o item.return_type
                                   \o <<", ">> \o item.adaptor \o <<", ", "true", ">">>
               IN  [v EXCEPT !.types = item.types,
                             !.return_type = className, !.adaptor = className,
                             !.adaptorNamespace = <<>>]
          [] called = <<"String">> ->
               [v EXCEPT !.return_type = <<"std::string_view">>,
                         !.adaptor = <<"StringViewAdaptor">>,
                         !.lifetimeAttribute = <<"CONFIG_LIFETIME_BOUND">>]
          [] called = <<"Integer">> -> handleNumber(v, node, TRUE, u)
          [] called = <<"Boolean">> ->
               [v EXCEPT !.return_type = <<"bool">>, !.adaptor = <<"BoolAdaptor">>]
          [] called = <<"Number">> -> handleNumber(v, node, FALSE, u)
          [] OTHER -> v

\* The loop of emit_class over o.properties() from the i-th property on:
\* what it appends to the streams types and methods.
EmitPropertiesUntilUnresolved(props, i, required, ns, u) ==
    IF i > Len(props)
          \/ VisitSchema(props[i].val, Sanitize(props[i].key), ns, u).return_type = <<>>
    THEN [types |-> <<>>, methods |-> <<>>]
    ELSE LET v == VisitSchema(props[i].val, Sanitize(props[i].key), ns, u)
             rest == EmitPropertiesUntilUnresolved(props, i + 1, required, ns, u)
         IN  [types |-> v.types \o rest.types,
              methods |-> <<MethodToken(v, Sanitize(props[i].key), props[i].key,
                                        props[i].key \in required, ns)>> \o rest.methods]

EmitProperties(props, i, required, ns, u) ==
    IF i > Len(props) THEN [types |-> <<>>, methods |-> <<>>]
    ELSE LET prop_name == props[i].key
             method_name == Sanitize(prop_name)
             isRequired == prop_name \in required
             description == DescriptionOf(props[i].val)
             doc == IF description.some THEN <<DocToken(description.val)>> ELSE <<>>
             v == VisitSchema(props[i].val, method_name, ns, u)
             rest == EmitProperties(props, i + 1, required, ns, u)
         IN  [types |-> v.types \o rest.types,
              methods |-> doc \o <<MethodToken(v, method_name, prop_name, isRequired, ns)>>
                              \o rest.methods]

emit_class(o, name, ns, u) ==
    LET body == EmitProperties(o.properties, 1, RequiredProperties(o), ns, u)
    IN  Assemble(name, ns, body.types, body.methods)

----------------------------------------------------------------------------
(* The generated code at run time.  A generated class holds a UCLPtr obj;  *)
(* its accessors are read back from the generated text: the required form  *)
(* is "return NS Adaptor(obj[KEY]);", the optional form is                 *)
(* "return make_optional<NS Adaptor, T>(obj[KEY]);".                       *)

StrNode(s) == [t |-> "string", s |-> s]

BoolNode(b) == [t |-> "bool", b |-> b]

NullNode == [t |-> "null"]

ObjNode(kv) == [t |-> "object", kv |-> kv]

\* UCLPtr::operator[]: ucl_object_lookup(obj, key), null when obj is null
\* or no object, or has no such key.
ucl_object_lookup(o, key) ==
    IF o.t = "object"
    THEN LET hits == {i \in 1..Len(o.kv) : o.kv[i].key = key}
         IN  IF hits = {} THEN NullPtr
             ELSE o.kv[CHOOSE i \in hits : \A j \in hits : i <= j].val
    ELSE NullPtr

\* StringViewAdaptor::operator std::string_view(): ucl_object_tostring is
\* null for anything but a string, and the view is then empty.
StringViewAdaptor(o) == [k |-> "string", s |-> IF o.t = "string" THEN o.s ELSE <<>>]

\* BoolAdaptor = NumberAdaptor<bool, ucl_object_toboolean>
BoolAdaptor(o) == [k |-> "bool", b |-> o.t = "bool" /\ o.b]

\* The index after position i of the "end" that closes the class open at
\* depth 1.
RECURSIVE ScanEnd(_, _, _)
ScanEnd(text, j, depth) ==
    IF text[j].k = "class" THEN ScanEnd(text, j + 1, depth + 1)
    ELSE IF text[j].k = "end"
         THEN IF depth = 1 THEN j ELSE ScanEnd(text, j + 1, depth - 1)
         ELSE ScanEnd(text, j + 1, depth)

\* The text of the class whose header is text[i], header to closing.
ClassText(text, i) == SubSeq(text, i, ScanEnd(text, i + 1, 1))

\* How many classes are open just before position j of a class text.
DepthAt(c, j) ==
    Cardinality({i \in 1..(j - 1) : c[i].k = "class"})
        - Cardinality({i \in 1..(j - 1) : c[i].k = "end"})

\* The positions of the direct members of class text c of one kind.
Members(c, kind) == {j \in 2..Len(c) : c[j].k = kind /\ DepthAt(c, j) = 1}

\* What the C++ compiler needs of a class text: members with distinct
\* names and a result type for every accessor, in every class.
Compiles(text) ==
    \A i \in {h \in 1..Len(text) : text[h].k = "class"} :
        LET c == ClassText(text, i)
        IN  /\ \A j1, j2 \in Members(c, "method") : c[j1].name = c[j2].name => j1 = j2
            /\ \A j1, j2 \in Members(c, "class") : c[j1].name = c[j2].name => j1 = j2
            /\ \A j \in Members(c, "method") : c[j].return_type # <<>>

\* Adaptor(o) for the adaptor an accessor of class text c names: a scalar
\* adaptor of the library, or a nested class of c constructed from o.
Construct(c, tok, o, u) ==
    LET a == tok.adaptor
        nested == {j \in Members(c, "class") : c[j].name = a}
    IN  IF tok.adaptorNamespace # <<>> /\ a = <<"StringViewAdaptor">>
        THEN StringViewAdaptor(o)
        ELSE IF tok.adaptorNamespace # <<>> /\ a = <<"BoolAdaptor">>
        THEN BoolAdaptor(o)
        ELSE IF tok.adaptorNamespace # <<>> /\ (a = <<"DoubleAdaptor">> \/ IsIntAdaptor(a))
        THEN NumberAdaptor(a, o, u)
        ELSE IF tok.adaptorNamespace = <<>> /\ nested # {}
        THEN [k |-> "instance", cls |-> ClassText(c, CHOOSE j \in nested : TRUE),
              obj |-> o]
        ELSE [k |-> "other", adaptor |-> a, obj |-> o]

\* make_optional<Adaptor, T>(o)
Empty == [k |-> "optional", some |-> FALSE]

Populated(x) == [k |-> "optional", some |-> TRUE, val |-> x]

make_optional_null_is_empty(c, tok, o, u) ==
    IF o = NullPtr \/ o = NullNode THEN Empty ELSE Populated(Construct(c, tok, o, u))

make_optional(c, tok, o, u) ==
    IF o = NullPtr THEN Empty ELSE Populated(Construct(c, tok, o, u))

\* The accessor at position j of class text c, called on an instance
\* whose obj is the node o.
CallAccessorWithoutLookup(c, j, o, u) ==
    IF c[j].optional THEN make_optional(c, c[j], o, u) ELSE Construct(c, c[j], o, u)

CallAccessor(c, j, o, u) ==
    The({IF c[j].optional
         THEN make_optional(c, c[j], arg, u)
         ELSE Construct(c, c[j], arg, u) : arg \in {ucl_object_lookup(o, c[j].key)}})

----------------------------------------------------------------------------
(* What the schema admits, as the comments on Schema::Number state it:     *)
(* values >= minimum, > exclusiveMinimum, <= maximum, < exclusiveMaximum,  *)
(* and value % multipleOf == 0.                                            *)

NodeAsDouble(o) == IF o.t = "int" THEN Whole(o.v) ELSE o.d

IsMultipleOf(x, m) ==
    IF IsNeg(m.trunc) \/ m = Whole(BigOf(0)) \/ m.frac < 0 THEN FALSE
    ELSE IF Leq(Pow2(13), m.trunc) THEN x = Whole(BigOf(0))
    ELSE LET q == 2 * m.trunc[1] + m.frac
         IN  (2 * ModSmall(x.trunc, q) + x.frac) % q = 0

ValidNumber(n, o) ==
    /\ IF n.type = <<"integer">> THEN o.t = "int" ELSE o.t \in {"int", "float"}
    /\ n.minimum.some => DLeq(n.minimum.val, NodeAsDouble(o))
    /\ n.exclusiveMinimum.some => DLess(n.exclusiveMinimum.val, NodeAsDouble(o))
    /\ n.maximum.some => DLeq(NodeAsDouble(o), n.maximum.val)
    /\ n.exclusiveMaximum.some => DLess(NodeAsDouble(o), n.exclusiveMaximum.val)
    /\ n.multipleOf.some => IsMultipleOf(NodeAsDouble(o), n.multipleOf.val)

----------------------------------------------------------------------------
(* The numeric schemas and document values the model draws.                *)

\* How far around each type limit the drawn bounds reach.
MaxDelta == 1

Deltas == (0 - MaxDelta)..MaxDelta

LowerValues ==
    {INT64_MIN} \cup
    {Add(p, BigOf(d)) : p \in {Neg(Pow2(31)), Neg(Pow2(15)), Neg(Pow2(7)), BigOf(0)},
                        d \in Deltas}

UpperValues ==
    {Pow2(63)} \cup
    {Add(Pow2(k), BigOf(d - 1)) : k \in {7, 8, 15, 16, 31, 32}, d \in Deltas}

Optional(S) == {None} \cup {Some(Whole(b)) : b \in S}

MultipleOfs ==
    {None, Some(Whole(BigOf(0))), Some(Whole(BigOf(1))), Some(Whole(BigOf(2))),
     Some(Half(BigOf(0), 1)), Some(Half(BigOf(0), -1)), Some(Half(BigOf(1), 1)),
     Some(Whole(BigOf(-1))), Some(Whole(BigOf(-2)))}

SchemasOf(ty, mos) ==
    {[Schema(ty) EXCEPT !.minimum = mn, !.exclusiveMinimum = xmn, !.maximum = mx,
                        !.exclusiveMaximum = xmx, !.multipleOf = mo] :
        mn \in Optional(LowerValues), xmn \in Optional({BigOf(-129)}),
        mx \in Optional(UpperValues), xmx \in Optional({BigOf(256)}),
        mo \in mos}

NumSchemas ==
    SchemasOf(<<"integer">>, {None, Some(Whole(BigOf(2)))})
        \cup SchemasOf(<<"number">>, MultipleOfs)

DocValues ==
    {IntNode(b) : b \in {INT64_MIN, BigOf(-129), BigOf(-1), BigOf(0), BigOf(42),
                         BigOf(255), BigOf(256), Pow2(32), INT64_MAX}}
    \cup {FloatNode(Half(BigOf(42), 1))}

----------------------------------------------------------------------------
(* The object schemas and documents the model draws.                       *)

\* The most properties the drawn root schema of the generation runs has.
MaxProps == 2

\* The most properties the drawn root schema has in the runs that call the
\* generated accessors.
MaxRunProps == 2

\* Property sequences of at most n entries with distinct keys.
PropSeqs(keys, values, n) ==
    UNION {{[i \in 1..len |-> Prop(ks[i], vs[i])] :
                ks \in {f \in [1..len -> keys] : \A i, j \in 1..len : f[i] = f[j] => i = j},
                vs \in [1..len -> values]} : len \in 0..n}

\* A missing "required", or a list of no key, of one key or of all keys.
RequiredLists(order) ==
    {NoRequired, Required(<<>>), Required(order)}
        \cup {Required(<<order[i]>>) : i \in 1..Len(order)}

ObjectSchemas(order, values, n) ==
    {[Schema(<<"object">>) EXCEPT !.properties = ps, !.required = rq] :
        ps \in PropSeqs({order[i] : i \in 1..Len(order)}, values, n),
        rq \in RequiredLists(order)}

Object1(key, val, rq) ==
    [Schema(<<"object">>) EXCEPT !.properties = <<Prop(key, val)>>, !.required = rq]

ArrayOf(items) == [Schema(<<"array">>) EXCEPT !.items = items]

\* Keys that sanitize to one name, and a key that ends in "Item".
GenKeys == << <<"a", "-", "b">>, <<"a", "_", "b">>, <<"a", "_", "b", "Item">> >>

GenLeaves ==
    {Schema(<<"string">>), [Schema(<<"string">>) EXCEPT !.description = SomeText(<<"d">>)],
     Schema(<<"integer">>), Schema(<<"oneOf">>)}

GenObjects ==
    {Schema(<<"object">>),
     Object1(GenKeys[2], Schema(<<"string">>), NoRequired),
     Object1(GenKeys[1],
             Object1(GenKeys[2], Schema(<<"integer">>), Required(<<GenKeys[2]>>)),
             Required(<<GenKeys[1]>>))}

GenArrays ==
    {ArrayOf(Schema(<<"string">>)), ArrayOf(NullPtr),
     ArrayOf(Object1(GenKeys[2], Schema(<<"string">>), NoRequired)),
     ArrayOf(ArrayOf(Schema(<<"object">>)))}

GenSchemas == ObjectSchemas(GenKeys, GenLeaves \cup GenObjects \cup GenArrays, MaxProps)

RunKeys == << <<"s">>, <<"a", "-", "b">>, <<"a", "_", "b">> >>

RunLeaves ==
    {Schema(<<"string">>),
     [Schema(<<"integer">>) EXCEPT !.minimum = Some(Whole(BigOf(0))),
                                   !.maximum = Some(Whole(BigOf(255)))]}

RunObjects ==
    {Object1(RunKeys[i], Schema(<<"string">>), Required(<<RunKeys[i]>>)) : i \in 1..3}
    \cup {Object1(RunKeys[1], Schema(<<"string">>), NoRequired)}

RunSchemas == ObjectSchemas(RunKeys, RunLeaves \cup RunObjects, MaxRunProps)

\* A document value of the kind a schema node describes; the strings of an
\* object's own properties differ from those of the object around it.
RECURSIVE SampleValue(_, _)
SampleValue(node, v) ==
    CASE TypeOf(node) = <<"string">> -> StrNode(IF v = 1 THEN <<"hello">> ELSE <<"inner">>)
      [] TypeOf(node) = <<"integer">> -> IntNode(BigOf(IF v = 1 THEN 42 ELSE 12))
      [] TypeOf(node) = <<"object">> ->
            ObjNode([i \in 1..Len(node.properties) |->
                        Prop(node.properties[i].key,
                             SampleValue(node.properties[i].val, 3 - v))])
      [] OTHER -> NullNode

Without(kv, i) == [j \in 1..(Len(kv) - 1) |-> IF j < i THEN kv[j] ELSE kv[j + 1]]

\* The documents drawn for a schema: the sample with every property, and
\* the sample with one entry, of the root or of a nested object, removed or
\* replaced by a null value or by a value of another kind.
Variants(d) ==
    {d} \cup {ObjNode(Without(d.kv, i)) : i \in 1..Len(d.kv)}
        \cup {ObjNode([d.kv EXCEPT ![i].val = x]) :
                  i \in 1..Len(d.kv), x \in {NullNode, BoolNode(TRUE)}}

Docs(o) ==
    LET full == SampleValue(o, 1)
    IN  Variants(full) \cup
        UNION {{ObjNode([full.kv EXCEPT ![i].val = x]) : x \in Variants(full.kv[i].val)} :
                  i \in {h \in 1..Len(full.kv) : full.kv[h].val.t = "object"}}

----------------------------------------------------------------------------
(* The runs.  Generation: emit_class on the root schema, as main calls it  *)
(* with the default class name and namespace.  Then the generated code is  *)
(* used: the root class is built on a document and its accessors called.   *)

NoNode == [t |-> "none"]

\* No Range is in use, and no UCLPtr is followed.
NoRange == range = NoNode /\ it = NoNode /\ seen = <<>> /\ heap = NoNode /\ handles = <<>>

\* No make_config is running.
NoFactory == guard = NoNode /\ validator = NoNode /\ parses = 0 /\ threads = <<>>

\* The generator is called as a function, not run as a program.
NoMain ==
    /\ argv = NoNode
    /\ configNamespace = NoNode
    /\ configClass = NoNode
    /\ embedSchema = FALSE
    /\ file_out = FALSE
    /\ file = NoNode
    /\ status = NoNode

ConfigClass == <<"Config">>

InitWith(schemas) ==
    /\ pc = "schema"
    /\ ub \in UBOutcomes
    /\ schema \in schemas
    /\ visit = NewVisitor(DefaultNamespace)
    /\ out = <<>>
    /\ docv = NoNode
    /\ call = <<>>
    /\ recv = NoNode
    /\ got = NoNode
    /\ NoRange
    /\ NoFactory
    /\ NoMain

\* emit_class(conf, configClass, out)
Generate ==
    /\ pc = "schema"
    /\ out' = emit_class(schema, ConfigClass, DefaultNamespace, ub)
    /\ visit' = IF Len(schema.properties) = 0 THEN visit
                 ELSE VisitSchema(schema.properties[1].val,
                                  Sanitize(schema.properties[1].key), DefaultNamespace, ub)
    /\ pc' = "generated"
    /\ UNCHANGED <<ub, schema, docv, call, recv, got, rangeVars, ptrVars, factoryVars, mainVars>>

\* Config conf(d); conf.NAME() for one accessor of the root class.
CallOn(docs) ==
    /\ pc = "generated"
    /\ Compiles(out)
    /\ \E d \in docs, j \in Members(out, "method") :
          /\ docv' = d
          /\ recv' = [k |-> "instance", cls |-> out, obj |-> d]
          /\ call' = <<out[j]>>
          /\ got' = CallAccessor(out, j, d, ub)
    /\ pc' = "called"
    /\ UNCHANGED <<ub, schema, visit, out, rangeVars, ptrVars, factoryVars, mainVars>>

\* The instance an accessor result gives access to, if any: the nested
\* class itself, or the value of a populated optional of it.
InstanceIn(r) ==
    IF r.k = "instance" THEN r
    ELSE IF r.k = "optional" /\ r.some /\ r.val.k = "instance" THEN r.val
    ELSE NoNode

\* conf.OUTER().NAME(): an accessor of the nested class just returned.
CallNested ==
    /\ pc = "called"
    /\ Len(call) = 1
    /\ InstanceIn(got) # NoNode
    /\ LET inst == InstanceIn(got)
       IN  \E j \in Members(inst.cls, "method") :
              /\ recv' = inst
              /\ call' = Append(call, inst.cls[j])
              /\ got' = CallAccessor(inst.cls, j, inst.obj, ub)
    /\ UNCHANGED <<pc, ub, schema, visit, out, docv, rangeVars, ptrVars, factoryVars, mainVars>>

\* Numeric resolution: a root whose one required property n is numeric.
NumKey == <<"n">>

NumRoots == {Object1(NumKey, n, Required(<<NumKey>>)) : n \in NumSchemas}

num == schema.properties[1].val

InitNum == InitWith(NumRoots)

CallNum == CallOn({ObjNode(<<Prop(NumKey, o)>>) : o \in DocValues})

NextNum == Generate \/ CallNum

SpecNum == InitNum /\ [][NextNum]_vars

\* Generation over nested schemas.
InitGen == InitWith(GenSchemas)

NextGen == Generate

SpecGen == InitGen /\ [][NextGen]_vars

\* Generation and use.
InitRun == InitWith(RunSchemas)

CallRoot == CallOn(Docs(schema))

NextRun == Generate \/ CallRoot \/ CallNested

SpecRun == InitRun /\ [][NextRun]_vars

----------------------------------------------------------------------------
(* Claims about numeric resolution, stated for SpecNum.                    *)

NoBounds(n) ==
    ~n.minimum.some /\ ~n.exclusiveMinimum.some /\ ~n.maximum.some
    /\ ~n.exclusiveMaximum.some

IsIntType(ty) == \E i \in 1..Len(IntTypes) : IntTypes[i].ty = ty

\* min <= x <= max for every x of the interval, as mathematical integers.
Covers(t, min, max) == Leq(TypeMin(t), min) /\ Leq(max, TypeMax(t))

\* C1: for an integer property and a document integer that the schema
\* admits, the generated accessor returns exactly the document's integer.
C1_AccessorReturnsDocumentInteger ==
    (pc = "called" /\ num.type = <<"integer">> /\ ValidNumber(num, docv.kv[1].val))
        => got = [k |-> "int", v |-> docv.kv[1].val.v]

\* C3: an integral property that declares no bound resolves to int64_t
\* with Int64Adaptor.
C3_NoBoundsSelectsInt64 ==
    (pc = "generated" /\ visit.integral /\ NoBounds(num))
        => (visit.return_type = <<"int64_t">> /\ visit.adaptor = <<"Int64Adaptor">>)

\* C4: for an integral property the selected type is the last one in probe
\* order whose range contains min and max as mathematical integers; in
\* particular its range contains the interval.
C4_SelectsLastCoveringType ==
    (pc = "generated" /\ visit.integral)
        => \E i \in 1..Len(IntTypes) :
              /\ visit.return_type = IntTypes[i].ty
              /\ visit.adaptor = IntTypes[i].a
              /\ Covers(IntTypes[i], visit.min, visit.max)
              /\ \A j \in (i + 1)..Len(IntTypes) :
                    ~Covers(IntTypes[j], visit.min, visit.max)

\* C5: a property is integral exactly when its kind is Integer or its
\* multipleOf is present and a whole number, of either sign; every other
\* Number property is a double with DoubleAdaptor.
C5_IntegralIffWholeMultipleOfAnySign ==
    pc = "generated" =>
        LET whole == num.multipleOf.some /\ num.multipleOf.val.frac = 0
        IN  IF num.type = <<"integer">> \/ whole
            THEN IsIntType(visit.return_type)
            ELSE visit.return_type = <<"double">> /\ visit.adaptor = <<"DoubleAdaptor">>

\* The largest of INT64_MIN and the supplied lower bounds, and the smallest
\* of INT64_MAX and the supplied upper bounds, as doubles.
DMax(x, y) == IF DLess(x, y) THEN y ELSE x

DMin(x, y) == IF DLess(y, x) THEN y ELSE x

\* C6: the interval of an integral property is [largest of INT64_MIN and
\* the supplied minimum and exclusiveMinimum, smallest of INT64_MAX and the
\* supplied maximum and exclusiveMaximum], exclusive bounds taken as they are.
C6_IntervalIsLargestLowerSmallestUpper ==
    (pc = "generated" /\ visit.integral)
        => /\ Whole(visit.min) =
                DMax(DMax(Whole(INT64_MIN), value_or(num.minimum, Whole(INT64_MIN))),
                     value_or(num.exclusiveMinimum, Whole(INT64_MIN)))
           /\ Whole(visit.max) =
                DMin(DMin(Whole(INT64_MAX), value_or(num.maximum, Whole(INT64_MAX))),
                     value_or(num.exclusiveMaximum, Whole(INT64_MAX)))

----------------------------------------------------------------------------
(* Claims about the generated text, stated for SpecGen.                    *)

\* The members of a set of positions in increasing order.
InOrder(S) ==
    [n \in 1..Cardinality(S) |-> CHOOSE j \in S : Cardinality({h \in S : h < j}) = n - 1]

\* The positions of the class headers of a text.
Headers(text) == {i \in 1..Len(text) : text[i].k = "class"}

\* Whether the required list of an object schema names the key.
Lists(o, key) ==
    o.required.some /\ \E n \in 1..Len(o.required.names) : o.required.names[n] = key

\* The object schemas a property gives a nested type definition in the
\* enclosing type, and the names the definitions are to have: an object
\* under the name P is P+"Class", the element of an array under P+"Item".
RECURSIVE NestedOf(_, _)
NestedOf(node, name) ==
    CASE TypeOf(node) = <<"object">> -> << [name |-> name \o <<"Class">>, o |-> node] >>
      [] TypeOf(node) = <<"array">> -> NestedOf(ItemsOf(node), name \o <<"Item">>)
      [] OTHER -> <<>>

RECURSIVE NestedFrom(_, _)
NestedFrom(props, i) ==
    IF i > Len(props) THEN <<>>
    ELSE NestedOf(props[i].val, Sanitize(props[i].key)) \o NestedFrom(props, i + 1)

\* The accessors of class text c against the properties of the object
\* schema o it was written for, here and in every nested type.
RECURSIVE AccessorsFollowRequired(_, _)
AccessorsFollowRequired(o, c) ==
    LET ms == InOrder(Members(c, "method"))
        cs == InOrder(Members(c, "class"))
        ns == NestedFrom(o.properties, 1)
    IN  /\ Len(ms) = Len(o.properties)
        /\ \A i \in 1..Len(ms) :
              LET tok == c[ms[i]]
                  key == o.properties[i].key
              IN  /\ tok.key = key
                  /\ tok.optional <=> ~Lists(o, key)
                  /\ IF tok.optional
                     THEN /\ Len(tok.maker) >= 2
                          /\ SubSeq(tok.maker, Len(tok.maker) - 1, Len(tok.maker))
                                = <<"make_optional", "<">>
                     ELSE tok.maker = <<>>
        /\ Len(cs) = Len(ns)
        /\ \A n \in 1..Len(cs) : AccessorsFollowRequired(ns[n].o, ClassText(c, cs[n]))

\* C7: an accessor is declared with the resolved type directly exactly when
\* the property's original key is in the object's required list, and as an
\* optional built by make_optional otherwise; without a required list every
\* accessor is optional; both forms look the original key up.
C7_DirectIffOriginalKeyRequired ==
    pc = "generated" =>
        /\ AccessorsFollowRequired(schema, out)
        /\ (~schema.required.some => \A j \in Members(out, "method") : out[j].optional)

\* C7 witness: a root class with a direct and an optional accessor, the
\* direct one for a key that is not its own method name.
C7_Witness ==
    /\ pc = "generated"
    /\ \E j1, j2 \in Members(out, "method") :
          /\ ~out[j1].optional /\ out[j1].key # out[j1].name
          /\ out[j2].optional /\ out[j2].maker # <<>>

\* C9: within one generated type, the nested type definitions have pairwise
\* distinct names.
C9_NestedTypeNamesDistinct ==
    pc = "generated" =>
        \A i \in Headers(out) :
            LET c == ClassText(out, i)
            IN  \A j1, j2 \in Members(c, "class") : c[j1].name = c[j2].name => j1 = j2

\* The class a result type names: the type itself, or the innermost element
\* type of a range.
InnerType(rt) ==
    LET lts == {i \in 1..Len(rt) : rt[i] = "<"}
        commas == {i \in 1..Len(rt) : rt[i] = ", "}
    IN  IF lts = {} \/ commas = {} THEN rt
        ELSE SubSeq(rt, (CHOOSE i \in lts : \A h \in lts : h <= i) + 1,
                        (CHOOSE i \in commas : \A h \in commas : i <= h) - 1)

NamesClass(rt) == InnerType(rt) # <<>> /\ InnerType(rt)[Len(InnerType(rt))] = "Class"

\* The order of class text c against the object schema o, here and in every
\* nested type.
RECURSIVE EmittedInOrder(_, _)
EmittedInOrder(o, c) ==
    LET ms == InOrder(Members(c, "method"))
        cs == InOrder(Members(c, "class"))
        ns == NestedFrom(o.properties, 1)
        inner == {j \in 2..(Len(c) - 1) : c[j].k = "class" \/ DepthAt(c, j) > 1}
    IN  /\ c[Len(c)].k = "end" /\ DepthAt(c, Len(c)) = 1
        /\ \A j \in inner, m \in Members(c, "method") : j < m
        /\ [n \in 1..Len(cs) |-> c[cs[n]].name] = [n \in 1..Len(ns) |-> ns[n].name]
        /\ [i \in 1..Len(ms) |-> c[ms[i]].key]
              = [i \in 1..Len(o.properties) |-> o.properties[i].key]
        /\ \A m \in Members(c, "method") :
              NamesClass(c[m].return_type)
                  => \E j \in Members(c, "class") :
                        j < m /\ c[j].name = InnerType(c[m].return_type)
        /\ \A n \in 1..Len(cs) : EmittedInOrder(ns[n].o, ClassText(c, cs[n]))

\* C10: in the text of one object schema the nested type definitions come
\* before every accessor, in the order their properties first need them;
\* the accessors come in document order; the closing comes last; every
\* accessor's result type is defined before the accessor.
C10_NestedTypesThenAccessorsThenClosing ==
    pc = "generated" => EmittedInOrder(schema, out)

\* C10 witness: two properties that both need nested types, one of them an
\* array whose element type is nested in turn or an object with an object.
C10_Witness ==
    /\ pc = "generated"
    /\ Cardinality(Members(out, "method")) = 2
    /\ Cardinality(Members(out, "class")) = 2
    /\ \E j \in Members(out, "class") : Members(ClassText(out, j), "class") # {}
    /\ \E m \in Members(out, "method") : "<" \in {out[m].return_type[i] : i \in 1..Len(out[m].return_type)}
                                          /\ NamesClass(out[m].return_type)

----------------------------------------------------------------------------
(* Claims about the generated accessors at run time, stated for SpecRun.   *)

Absent == [t |-> "absent"]

\* The document's entry under a key of a node: Absent when the node is no
\* object or has no such key.
Entry(d, key) ==
    IF d.t = "object" /\ \E i \in 1..Len(d.kv) : d.kv[i].key = key
    THEN d.kv[CHOOSE i \in 1..Len(d.kv) :
                  d.kv[i].key = key /\ \A h \in 1..(i - 1) : d.kv[h].key # key].val
    ELSE Absent

PropOf(o, key) ==
    o.properties[CHOOSE i \in 1..Len(o.properties) : o.properties[i].key = key].val

\* The object schema the class of the last receiver was generated for.
RecvSchema == IF Len(call) = 1 THEN schema ELSE PropOf(schema, call[1].key)

\* C2: for a required object property P with a required string property Q,
\* P() is an instance of the nested type P+"Class" bound to the document's
\* node at key P, and P().Q() is the string at key Q of that node.
C2_NestedAccessorReadsChildNode ==
    (/\ pc = "called"
     /\ Lists(schema, call[1].key)
     /\ TypeOf(PropOf(schema, call[1].key)) = <<"object">>
     /\ Entry(docv, call[1].key) # Absent)
        => LET P == call[1].key
               child == Entry(docv, P)
           IN  IF Len(call) = 1
               THEN /\ got.k = "instance"
                    /\ got.obj = child
                    /\ got.cls[1].name = Sanitize(P) \o <<"Class">>
               ELSE /\ recv.obj = child
                    /\ (/\ Lists(PropOf(schema, P), call[2].key)
                        /\ TypeOf(PropOf(PropOf(schema, P), call[2].key)) = <<"string">>
                        /\ Entry(child, call[2].key) # Absent
                        /\ Entry(child, call[2].key).t = "string")
                           => got = [k |-> "string", s |-> Entry(child, call[2].key).s]

\* C2 witness: the root and the child hold different strings at one key,
\* and the nested accessor returned the child's.
C2_Witness ==
    /\ pc = "called"
    /\ Len(call) = 2
    /\ Lists(schema, call[1].key)
    /\ Lists(PropOf(schema, call[1].key), call[2].key)
    /\ Entry(docv, call[2].key) # Absent
    /\ Entry(docv, call[2].key).t = "string"
    /\ got.k = "string"
    /\ got.s # <<>>
    /\ got.s # Entry(docv, call[2].key).s

\* C8: the accessor of a property that is not required returns an empty
\* optional exactly when the receiver's node has no entry under the key,
\* and otherwise a populated optional of the entry's converted value.
C8_OptionalEmptyIffKeyAbsent ==
    (pc = "called" /\ ~Lists(RecvSchema, call[Len(call)].key))
        => LET key == call[Len(call)].key
               e == Entry(recv.obj, key)
               kind == TypeOf(PropOf(RecvSchema, key))
           IN  /\ got.k = "optional"
               /\ ~got.some <=> e = Absent
               /\ (e # Absent /\ kind = <<"string">> /\ e.t = "string")
                     => got.val = [k |-> "string", s |-> e.s]
               /\ (e # Absent /\ kind = <<"integer">> /\ e.t = "int")
                     => got.val = [k |-> "int", v |-> e.v]
               /\ (e # Absent /\ kind = <<"object">>)
                     => got.val.k = "instance" /\ got.val.obj = e

\* C8 witness: an optional nested object was present, and an optional
\* property of it was not.
C8_Witness ==
    /\ pc = "called"
    /\ Len(call) = 2
    /\ call[1].optional /\ call[2].optional
    /\ Entry(docv, call[1].key) # Absent
    /\ Entry(docv, call[1].key).t = "object"
    /\ got = Empty

----------------------------------------------------------------------------
(* Accessor names.  Keys with characters that no identifier may hold: the  *)
(* schema document is JSON or UCL, and any string is a key.                *)

NameKeys ==
    << <<"a", "b">>, <<"a", "-", "b">>, <<"a", ".", "b">>, <<"a", " ", "b">>,
       <<"2", "a">>, <<"-", "a">> >>

NameSchemas ==
    ObjectSchemas(NameKeys, {Schema(<<"string">>), Schema(<<"integer">>)}, MaxProps)

InitName == InitWith(NameSchemas)

NextName == Generate

SpecName == InitName /\ [][NextName]_vars

\* The symbols of an identifier, and those it may start with.
IdentifierSymbols == {"a", "b", "n", "s", "_", "2", "Item", "Class"}

IdentifierStarts == IdentifierSymbols \ {"2"}

IsIdentifier(s) ==
    /\ s # <<>>
    /\ s[1] \in IdentifierStarts
    /\ \A i \in 1..Len(s) : s[i] \in IdentifierSymbols

\* C11: an accessor's name is its key with every character that no
\* identifier may hold replaced, so it is an identifier, and equal to the
\* key when the key is one; the lookup uses the key unchanged.
C11_AccessorNameIsIdentifier ==
    pc = "generated" =>
        LET ms == InOrder(Members(out, "method"))
        IN  /\ Len(ms) = Len(schema.properties)
            /\ \A i \in 1..Len(ms) :
                  LET tok == out[ms[i]]
                      key == schema.properties[i].key
                  IN  /\ tok.key = key
                      /\ IsIdentifier(tok.name)
                      /\ Len(tok.name) = Len(key)
                      /\ \A h \in 1..Len(key) :
                            key[h] \in IdentifierSymbols => tok.name[h] = key[h]
                      /\ IsIdentifier(key) => tok.name = key

----------------------------------------------------------------------------
(* Range<T, Adaptor, IterateProperties> of config-generic.h and the libucl *)
(* iterator under it.  A document array is a node with its elements in     *)
(* document order.  The parser is created with                             *)
(* UCL_PARSER_NO_IMPLICIT_ARRAYS, so no node has a successor in an         *)
(* implicit array: the next pointer of every node is null.                 *)

ArrNode(elems) == [t |-> "array", elems |-> elems]

\* ucl_object_type: UCL_NULL for the null pointer, else the node's type.
ucl_object_type(o) == IF o = NullPtr THEN "null" ELSE o.t

\* ucl_object_iterate_new(obj): an iterator before the first element.
ucl_object_iterate_new(o) == [impl_it |-> o, expl_it |-> 0]

\* ucl_object_iterate_safe(iter, UCL_ITERATE_BOTH): the next node, or the
\* null pointer at the end, and the iterator after the call.  A container
\* hands out its entries one by one; any other node is handed out itself.
ucl_object_iterate_safe(iter) ==
    LET o == iter.impl_it
        inner == IF o = NullPtr THEN <<>>
                 ELSE IF o.t = "object" THEN [i \in 1..Len(o.kv) |-> o.kv[i].val]
                 ELSE IF o.t = "array" THEN o.elems
                 ELSE <<>>
    IN  IF o = NullPtr THEN [ret |-> NullPtr, iter |-> iter]
        ELSE IF o.t \in {"object", "array"}
        THEN IF iter.expl_it < Len(inner)
             THEN [ret |-> inner[iter.expl_it + 1],
                   iter |-> [iter EXCEPT !.expl_it = @ + 1]]
             ELSE [ret |-> NullPtr, iter |-> [impl_it |-> NullPtr, expl_it |-> 0]]
        ELSE [ret |-> o, iter |-> [impl_it |-> NullPtr, expl_it |-> 0]]

\* Iter::operator++
IterIncrement(i) ==
    IF i.iter = NullPtr THEN [i EXCEPT !.obj = NullPtr]
    ELSE LET step == ucl_object_iterate_safe(i.iter)
         IN  [i EXCEPT !.obj = step.ret, !.iter = step.iter]

\* Iter::Iter(arr, type)
IterSkipsFirstIncrement(arr, IterateProperties) ==
    [iter |-> ucl_object_iterate_new(arr), obj |-> arr, array |-> arr]

IterNew(arr, IterateProperties) ==
    IF ~IterateProperties /\ ucl_object_type(arr) # "array"
    THEN [iter |-> NullPtr, obj |-> arr, array |-> NullPtr]
    ELSE IterIncrement([iter |-> ucl_object_iterate_new(arr), obj |-> NullPtr,
                        array |-> arr])

\* Iter::Iter(): the iterator Range::end returns.
IterEnd == [iter |-> NullPtr, obj |-> NullPtr, array |-> NullPtr]

\* Iter::operator!=
IterNotEqual(a, b) == a.obj # b.obj

\* Range::empty
RangeEmpty(r) == r.array = NullPtr \/ ucl_object_type(r.array) = "null"

\* The most elements a drawn document array has.
MaxElems == 3

RangeScalars == {IntNode(BigOf(5)), StrNode(<<"hello">>), BoolNode(FALSE)}

RangeElems == {IntNode(BigOf(1)), IntNode(BigOf(2)), StrNode(<<"hello">>), NullNode}

RangeDocs ==
    {NullPtr, NullNode} \cup RangeScalars
        \cup UNION {{ArrNode(e) : e \in [1..n -> RangeElems]} : n \in 0..MaxElems}
        \cup {ArrNode(<<ArrNode(<<>>), IntNode(BigOf(1))>>),
              ObjNode(<<>>),
              ObjNode(<<Prop(<<"a">>, IntNode(BigOf(1))), Prop(<<"b">>, IntNode(BigOf(2)))>>)}

InitRange ==
    /\ pc = "range"
    /\ ub \in UBOutcomes
    /\ schema = NoNode
    /\ visit = NewVisitor(DefaultNamespace)
    /\ out = <<>>
    /\ docv \in RangeDocs
    /\ call = <<>>
    /\ recv = NoNode
    /\ got = NoNode
    /\ \E ip \in BOOLEAN : range = [array |-> docv, IterateProperties |-> ip]
    /\ it = NoNode
    /\ seen = <<>>
    /\ heap = NoNode
    /\ handles = <<>>
    /\ NoFactory
    /\ NoMain

\* r.empty()
CallEmpty ==
    /\ pc \in {"range", "done"}
    /\ got = NoNode
    /\ got' = [k |-> "bool", b |-> RangeEmpty(range)]
    /\ UNCHANGED <<pc, ub, schema, visit, out, docv, call, recv, rangeVars, ptrVars, factoryVars, mainVars>>

\* for (auto x : r): auto b = r.begin(), e = r.end();
Begin ==
    /\ pc = "range"
    /\ it' = IterNew(range.array, range.IterateProperties)
    /\ pc' = "iterating"
    /\ UNCHANGED <<ub, schema, visit, out, docv, call, recv, got, range, seen, ptrVars, factoryVars, mainVars>>

\* b != e holds: x = *b; the loop body; ++b.
Step ==
    /\ pc = "iterating"
    /\ IterNotEqual(it, IterEnd)
    /\ seen' = Append(seen, it.obj)
    /\ it' = IterIncrement(it)
    /\ UNCHANGED <<pc, ub, schema, visit, out, docv, call, recv, got, range, ptrVars, factoryVars, mainVars>>

\* b != e fails: the loop is over.
Finish ==
    /\ pc = "iterating"
    /\ ~IterNotEqual(it, IterEnd)
    /\ pc' = "done"
    /\ UNCHANGED <<ub, schema, visit, out, docv, call, recv, got, rangeVars, ptrVars, factoryVars, mainVars>>

NextRange == CallEmpty \/ Begin \/ Step \/ Finish

SpecRange == InitRange /\ [][NextRange]_vars

\* C12: a finished walk of a range has yielded the elements of a document
\* array once each in document order, nothing for an absent node, and the
\* node itself for a scalar, whatever IterateProperties is.
C12_WalkYieldsArrayElementsOrScalar ==
    pc = "done" =>
        /\ docv = NullPtr => seen = <<>>
        /\ (docv # NullPtr /\ docv.t = "array") => seen = docv.elems
        /\ docv \in RangeScalars => seen = <<docv>>

\* C12 witness: a walk of the instantiation the generator emits over an
\* array of the most elements is finished.
C12_Witness ==
    /\ pc = "done"
    /\ range.IterateProperties
    /\ docv # NullPtr /\ docv.t = "array"
    /\ Len(seen) = MaxElems
    /\ seen[1] # seen[2]

\* C18: empty() is true exactly when a walk from begin() yields no element.
C18_EmptyIffWalkYieldsNothing ==
    (pc = "done" /\ got # NoNode) => (got.b <=> seen = <<>>)

----------------------------------------------------------------------------
(* UCLPtr.  Two nodes are followed: a root, which its owner outside any    *)
(* UCLPtr holds one reference to until it drops it, and a child of the     *)
(* root, which the root holds one reference to until the root is freed.    *)
(* The heap keeps each node's reference count and how often it was freed;  *)
(* bad records a reference taken or dropped on a freed node.               *)

\* The most UCLPtr objects alive at once.
MaxHandles == 3

Nodes == {"root", "child"}

Null == "null"

Dead == "dead"

\* ucl_object_ref(o): counts one more reference; null is left alone.
ucl_object_ref(h, o) ==
    IF o = Null THEN h
    ELSE IF h.freed[o] > 0 THEN [h EXCEPT !.bad = TRUE]
    ELSE [h EXCEPT !.ref[o] = @ + 1]

\* ucl_object_unref(o): drops one reference and frees the node with the
\* last one; a freed node drops the references it holds to its children.
RECURSIVE ucl_object_unref(_, _)
ucl_object_unref(h, o) ==
    IF o = Null THEN h
    ELSE IF h.freed[o] > 0 \/ h.ref[o] = 0 THEN [h EXCEPT !.bad = TRUE]
    ELSE IF h.ref[o] > 1 THEN [h EXCEPT !.ref[o] = @ - 1]
    ELSE LET gone == [h EXCEPT !.ref[o] = 0, !.freed[o] = @ + 1]
         IN  IF o = "root" THEN ucl_object_unref(gone, "child") ELSE gone

\* ucl_object_lookup(obj, key) on the followed nodes: the child for the
\* key it is stored under in the root, null otherwise.
LookupNode(o, found) == IF o = "root" /\ found THEN "child" ELSE Null

\* The raw pointers code outside can pass in: null, a node its owner still
\* holds, and what a live UCLPtr converts to.
RawPointers ==
    {Null} \cup {n \in Nodes : n = "root" /\ heap.owner > 0}
           \cup {handles[i] : i \in {j \in 1..MaxHandles : handles[j] # Dead}}

InitPtr ==
    /\ pc = "ptr"
    /\ ub \in UBOutcomes
    /\ schema = NoNode
    /\ visit = NewVisitor(DefaultNamespace)
    /\ out = <<>>
    /\ docv = NoNode
    /\ call = <<>>
    /\ recv = NoNode
    /\ got = NoNode
    /\ range = NoNode
    /\ it = NoNode
    /\ seen = <<>>
    /\ heap = [ref |-> [n \in Nodes |-> 1], freed |-> [n \in Nodes |-> 0],
               owner |-> 1, bad |-> FALSE]
    /\ handles = [i \in 1..MaxHandles |-> Dead]
    /\ NoFactory
    /\ NoMain

PtrStep(h, hs) ==
    /\ pc = "ptr"
    /\ heap' = h
    /\ handles' = hs
    /\ UNCHANGED <<pc, ub, schema, visit, out, docv, call, recv, got, rangeVars,
                   factoryVars, mainVars>>

\* UCLPtr()
DefaultConstruct ==
    \E i \in 1..MaxHandles :
        /\ handles[i] = Dead
        /\ PtrStep(heap, [handles EXCEPT ![i] = Null])

\* UCLPtr(const ucl_object_t *o) : obj(ucl_object_ref(o))
RawConstruct ==
    \E i \in 1..MaxHandles, o \in RawPointers :
        /\ handles[i] = Dead
        /\ PtrStep(ucl_object_ref(heap, o), [handles EXCEPT ![i] = o])

\* UCLPtr(const UCLPtr &o) : obj(ucl_object_ref(o.obj))
CopyConstruct ==
    \E i, j \in 1..MaxHandles :
        /\ handles[i] = Dead /\ handles[j] # Dead
        /\ PtrStep(ucl_object_ref(heap, handles[j]), [handles EXCEPT ![i] = handles[j]])

\* UCLPtr(UCLPtr &&o) : obj(o.obj) { o.obj = nullptr; }
MoveConstruct ==
    \E i, j \in 1..MaxHandles :
        /\ handles[i] = Dead /\ handles[j] # Dead
        /\ PtrStep(heap, [handles EXCEPT ![i] = handles[j], ![j] = Null])

\* ~UCLPtr()
Destroy ==
    \E i \in 1..MaxHandles :
        /\ handles[i] # Dead
        /\ PtrStep(ucl_object_unref(heap, handles[i]), [handles EXCEPT ![i] = Dead])

\* operator=(const ucl_object_t *o): o = ucl_object_ref(o);
\* ucl_object_unref(obj); obj = o;
AssignUnrefFirst(h, old, o) == ucl_object_ref(ucl_object_unref(h, old), o)

Assign(h, old, o) == ucl_object_unref(ucl_object_ref(h, o), old)

RawAssign ==
    \E i \in 1..MaxHandles, o \in RawPointers :
        /\ handles[i] # Dead
        /\ PtrStep(Assign(heap, handles[i], o), [handles EXCEPT ![i] = o])

\* operator=(const UCLPtr o): the argument is a copy, which is assigned
\* from and then destroyed; i = j is the self-assignment.
CopyAssign ==
    \E i, j \in 1..MaxHandles :
        /\ handles[i] # Dead /\ handles[j] # Dead
        /\ LET o == handles[j]
               copied == ucl_object_ref(heap, o)
               assigned == Assign(copied, handles[i], o)
           IN  PtrStep(ucl_object_unref(assigned, o), [handles EXCEPT ![i] = o])

\* operator[](key): a UCLPtr built from ucl_object_lookup(obj, key).
Lookup ==
    \E i, j \in 1..MaxHandles, found \in BOOLEAN :
        /\ handles[i] = Dead /\ handles[j] # Dead
        /\ LET o == LookupNode(handles[j], found)
           IN  PtrStep(ucl_object_ref(heap, o), [handles EXCEPT ![i] = o])

\* The owner drops its reference: ucl_object_unref(obj) in main.
OwnerUnref ==
    /\ heap.owner > 0
    /\ PtrStep([ucl_object_unref(heap, "root") EXCEPT !.owner = @ - 1], handles)

NextPtr ==
    \/ DefaultConstruct \/ RawConstruct \/ CopyConstruct \/ MoveConstruct
    \/ Destroy \/ RawAssign \/ CopyAssign \/ Lookup \/ OwnerUnref

SpecPtr == InitPtr /\ [][NextPtr]_vars

\* The references to a node held outside UCLPtr, and the live handles that
\* point to it.
HeldOutside(n) ==
    IF n = "root" THEN heap.owner ELSE IF heap.freed["root"] = 0 THEN 1 ELSE 0

Pointing(n) == Cardinality({i \in 1..MaxHandles : handles[i] = n})

\* C13: a node's reference count is the references held outside UCLPtr
\* plus the live handles that point to it; it is freed when and only when
\* that sum is zero, once, and nothing touches it afterwards.
C13_CountIsOutsidePlusHandles ==
    pc = "ptr" =>
        /\ ~heap.bad
        /\ \A n \in Nodes :
              /\ heap.ref[n] = HeldOutside(n) + Pointing(n)
              /\ heap.freed[n] = IF HeldOutside(n) + Pointing(n) = 0 THEN 1 ELSE 0

\* C13 witness: the driver during emit_class: the owner has dropped its
\* reference, and the root lives by handles alone, one of them assigned
\* to itself before.
C13_Witness ==
    /\ pc = "ptr"
    /\ heap.owner = 0
    /\ heap.freed["root"] = 0
    /\ Pointing("root") = 2
    /\ Pointing("child") = 1

----------------------------------------------------------------------------
(* The embedded schema: main emits the schema as compact JSON, escapes it  *)
(* as a C string literal, and make_config parses the literal's value.      *)
(* The model follows one JSON string of the text, the description, whose   *)
(* characters may be quotes, backslashes and line feeds.                   *)

Quote == "\""

Backslash == "\\"

LineFeed == "\n"

\* ucl_object_emit(obj, UCL_EMIT_JSON_COMPACT) on a string.
RECURSIVE JsonEscape(_)
JsonEscape(s) ==
    IF s = <<>> THEN <<>>
    ELSE (CASE Head(s) = Quote -> <<Backslash, Quote>>
            [] Head(s) = Backslash -> <<Backslash, Backslash>>
            [] Head(s) = LineFeed -> <<Backslash, "n">>
            [] OTHER -> <<Head(s)>>) \o JsonEscape(Tail(s))

JsonEmitString(s) == <<Quote>> \o JsonEscape(s) \o <<Quote>>

\* The lambda replace of main: every occurrence of the character search
\* from position pos on is replaced, and the scan goes on behind the
\* replacement.
RECURSIVE replace(_, _, _, _)
replace(s, pos, search, with) ==
    LET hits == {i \in pos..Len(s) : s[i] = search}
    IN  IF hits = {} THEN s
        ELSE LET i == CHOOSE h \in hits : \A g \in hits : h <= g
             IN  replace(SubSeq(s, 1, i - 1) \o with \o SubSeq(s, i + 1, Len(s)),
                         i + Len(with), search, with)

\* Escape as a C string: the three calls of replace, in their order.
EscapeAsCString(s) ==
    replace(replace(replace(s, 1, Backslash, <<Backslash, Backslash>>),
                    1, Quote, <<Backslash, Quote>>),
            1, LineFeed, <<Backslash, "n">>)

Failed == [ok |-> FALSE, s |-> <<>>]

\* Reads an escaped string up to its end or to a bare quote: the value, and
\* what is left behind it.  JSON strings and C string literals have the
\* escapes of the model in common.
RECURSIVE Unescape(_, _)
Unescape(s, acc) ==
    IF s = <<>> THEN [ok |-> TRUE, s |-> acc, rest |-> <<>>]
    ELSE IF Head(s) = Quote THEN [ok |-> TRUE, s |-> acc, rest |-> s]
    ELSE IF Head(s) = Backslash
         THEN IF Len(s) < 2 THEN [ok |-> FALSE, s |-> acc, rest |-> <<>>]
              ELSE LET c == s[2]
                       v == CASE c = "n" -> LineFeed
                              [] c \in {Quote, Backslash} -> c
                              [] OTHER -> "?"
                   IN  IF v = "?" THEN [ok |-> FALSE, s |-> acc, rest |-> <<>>]
                       ELSE Unescape(SubSeq(s, 3, Len(s)), Append(acc, v))
         ELSE Unescape(Tail(s), Append(acc, Head(s)))

\* What the compiler makes of  static const char embeddedSchema[] = "TEXT";
\* a bare quote or a line feed inside TEXT does not compile.
CompileLiteral(text) ==
    LET r == Unescape(text, <<>>)
    IN  IF r.ok /\ r.rest = <<>> /\ \A i \in 1..Len(text) : text[i] # LineFeed
        THEN [ok |-> TRUE, s |-> r.s]
        ELSE Failed

\* ucl_parser_add_string on one JSON string: an opening quote, the escaped
\* characters, the closing quote, and nothing behind it.
ParseJsonString(text) ==
    IF text = <<>> \/ Head(text) # Quote THEN Failed
    ELSE LET r == Unescape(Tail(text), <<>>)
         IN  IF r.ok /\ r.rest = <<Quote>> THEN [ok |-> TRUE, s |-> r.s] ELSE Failed

\* The schema object the lambda of make_config returns, or Failed where it
\* calls std::terminate.
EmbeddedSchema(o) ==
    LET lit == CompileLiteral(EscapeAsCString(JsonEmitString(o.description.val)))
        parsed == IF lit.ok THEN ParseJsonString(lit.s) ELSE Failed
    IN  IF parsed.ok THEN [ok |-> TRUE, schema |-> [o EXCEPT !.description = SomeText(parsed.s)]]
        ELSE [ok |-> FALSE, schema |-> NoNode]

\* ucl_object_validate(schema, obj, &err) for the schemas of the model: the
\* node has the declared type, a number is within its bounds, an object has
\* its required entries, and its entries conform to their properties.
RECURSIVE ucl_object_validate(_, _)
ucl_object_validate(s, d) ==
    CASE TypeOf(s) = <<"string">> -> d.t = "string"
      [] TypeOf(s) = <<"integer">> -> d.t = "int" /\ ValidNumber(s, d)
      [] TypeOf(s) = <<"object">> ->
            /\ d.t = "object"
            /\ \A n \in RequiredProperties(s) : ucl_object_lookup(d, n) # NullPtr
            /\ \A i \in 1..Len(s.properties) :
                  LET e == ucl_object_lookup(d, s.properties[i].key)
                  IN  e # NullPtr => ucl_object_validate(s.properties[i].val, e)
      [] OTHER -> TRUE

----------------------------------------------------------------------------
(* make_config, the factory main emits with the embed option, called by    *)
(* several threads.  The initialization of its static local runs once: a   *)
(* thread that reaches the declaration while another one runs the          *)
(* initializer waits until that one is done.                               *)

\* The threads that call make_config.
MaxThreads == 2

\* The most characters of a drawn description.
MaxText == 2

Threads == 1..MaxThreads

TextSymbols == {"a", "n", Quote, Backslash, LineFeed}

Texts == UNION {[1..n -> TextSymbols] : n \in 0..MaxText}

\* The schemas whose description holds every drawn text, and one with a
\* bounded integer.
CallSchemas ==
    {[o EXCEPT !.description = SomeText(t)] :
        o \in {Object1(RunKeys[1], Schema(<<"string">>), Required(<<RunKeys[1]>>))},
        t \in Texts}
    \cup {[Object1(RunKeys[2], CHOOSE l \in RunLeaves : TypeOf(l) = <<"integer">>, NoRequired)
             EXCEPT !.description = SomeText(<<"a">>)]}

\* The schemas of the runs with several threads.
FactorySchemas ==
    {o \in CallSchemas : o.description.val \in {<<"a">>, <<Quote, Backslash>>}}

FactoryDocs(o) ==
    Variants(SampleValue(o, 1))
        \cup {ObjNode(<<Prop(o.properties[1].key, IntNode(BigOf(256)))>>)}

Idle == [pc |-> "idle", doc |-> NoNode, result |-> NoNode, used |-> 0]

InitFactoryWith(schemas) ==
    /\ pc = "factory"
    /\ ub \in UBOutcomes
    /\ schema \in schemas
    /\ visit = NewVisitor(DefaultNamespace)
    /\ out = emit_class(schema, ConfigClass, DefaultNamespace, ub)
    /\ docv = NoNode
    /\ call = <<>>
    /\ recv = NoNode
    /\ got = NoNode
    /\ NoRange
    /\ guard = "uninitialized"
    /\ validator = NoNode
    /\ parses = 0
    /\ threads = [t \in Threads |-> Idle]
    /\ NoMain

InitFactory == InitFactoryWith(FactorySchemas)

FactoryStep ==
    /\ pc = "factory"
    /\ UNCHANGED <<pc, ub, schema, visit, out, docv, call, recv, got, rangeVars, ptrVars,
                   mainVars>>

\* make_config(obj) is called; control reaches the declaration of schema.
Enter(t) ==
    /\ threads[t].pc \in {"idle", "returned"}
    /\ \E d \in FactoryDocs(schema) :
          threads' = [threads EXCEPT ![t] = [Idle EXCEPT !.pc = "static", !.doc = d]]
    /\ UNCHANGED <<guard, validator, parses>>
    /\ FactoryStep

\* Whether a thread at the declaration runs the initializer.
StartsInitializerUnlessDone(g) == g # "initialized"

StartsInitializer(g) == g = "uninitialized"

\* The first thread at the declaration starts the lambda.
StartInit(t) ==
    /\ threads[t].pc = "static"
    /\ StartsInitializer(guard)
    /\ guard' = "initializing"
    /\ threads' = [threads EXCEPT ![t].pc = "lambda"]
    /\ UNCHANGED <<validator, parses>>
    /\ FactoryStep

\* The lambda: the parser reads embeddedSchema; std::terminate on an error,
\* else the object is returned and schema is initialized.
ParseEmbedded(t) ==
    /\ threads[t].pc = "lambda"
    /\ LET e == EmbeddedSchema(schema)
       IN  IF e.ok
           THEN /\ validator' = [id |-> parses + 1, schema |-> e.schema]
                /\ guard' = "initialized"
                /\ threads' = [threads EXCEPT ![t].pc = "validate"]
           ELSE /\ threads' = [threads EXCEPT ![t].pc = "terminated"]
                /\ UNCHANGED <<validator, guard>>
    /\ parses' = parses + 1
    /\ FactoryStep

\* schema is initialized already: control passes the declaration.
PassStatic(t) ==
    /\ threads[t].pc = "static"
    /\ guard = "initialized"
    /\ threads' = [threads EXCEPT ![t].pc = "validate"]
    /\ UNCHANGED <<guard, validator, parses>>
    /\ FactoryStep

\* if (!ucl_object_validate(schema, obj, &err)) { return err; }
\* return Config(obj);
ResultAlwaysInstance(valid, d) == [k |-> "instance", cls |-> out, obj |-> d]

Result(valid, d) ==
    IF ~valid THEN [k |-> "ucl_schema_error"]
    ELSE [k |-> "instance", cls |-> out, obj |-> d]

Validate(t) ==
    /\ threads[t].pc = "validate"
    /\ threads' = [threads EXCEPT
          ![t].pc = "returned",
          ![t].used = IF validator = NoNode THEN -1 ELSE validator.id,
          ![t].result = IF validator = NoNode THEN [k |-> "undefined"]
                        ELSE Result(ucl_object_validate(validator.schema, threads[t].doc),
                                    threads[t].doc)]
    /\ UNCHANGED <<guard, validator, parses>>
    /\ FactoryStep

NextFactory ==
    \E t \in Threads :
        Enter(t) \/ StartInit(t) \/ ParseEmbedded(t) \/ PassStatic(t) \/ Validate(t)

SpecFactory == InitFactory /\ [][NextFactory]_vars

\* One thread calls make_config again and again, over every drawn text.
InitCall == InitFactoryWith(CallSchemas)

Caller == CHOOSE t \in Threads : \A s \in Threads : t <= s

NextCall ==
    \/ Enter(Caller)
    \/ StartInit(Caller)
    \/ ParseEmbedded(Caller)
    \/ PassStatic(Caller)
    \/ Validate(Caller)

SpecCall == InitCall /\ [][NextCall]_vars

\* C14: the embedded schema is parsed at most once, into the schema main
\* read; a thread validates only after that parse is complete, and always
\* against that one object.
C14_ValidatorBuiltOnceBeforeUse ==
    pc = "factory" =>
        /\ parses <= 1
        /\ validator # NoNode => (validator.id = 1 /\ validator.schema = schema /\ parses = 1)
        /\ \A t \in Threads :
              /\ threads[t].pc \in {"validate", "returned"}
                    => (guard = "initialized" /\ validator # NoNode)
              /\ threads[t].pc = "returned" => threads[t].used = 1

\* C14 witness: both threads made their first call together, one of them
\* waited for the other's parse, and both have validated.
C14_Witness ==
    /\ pc = "factory"
    /\ parses = 1
    /\ \A t \in Threads : threads[t].pc = "returned" /\ threads[t].used = 1
    /\ schema.description.val = <<Quote, Backslash>>

\* C15: no call ends the process; a call that returns returns the instance
\* built on the document when the document validates against the schema,
\* and the validation error when it does not.
C15_InstanceIffDocumentValidates ==
    pc = "factory" =>
        \A t \in Threads :
            /\ threads[t].pc # "terminated"
            /\ threads[t].pc = "returned" =>
                  IF ucl_object_validate(schema, threads[t].doc)
                  THEN /\ threads[t].result.k = "instance"
                       /\ threads[t].result.obj = threads[t].doc
                  ELSE threads[t].result = [k |-> "ucl_schema_error"]

\* C15 witness: the schema was embedded with a backslash and a quote in
\* it, and a call on an object that does not conform returned the error.
C15_Witness ==
    /\ pc = "factory"
    /\ schema.description.val = <<Backslash, Quote>>
    /\ threads[Caller].pc = "returned"
    /\ threads[Caller].result.k = "ucl_schema_error"
    /\ threads[Caller].doc.t = "object"

----------------------------------------------------------------------------
(* Dispatch on "type", and properties whose type resolves to nothing.      *)

\* What "type" holds in the drawn properties: the six strings of the
\* table, strings that are not in it, and no string at all.
VisitTypes ==
    {<<"object">>, <<"array">>, <<"string">>, <<"integer">>, <<"boolean">>, <<"number">>,
     <<"oneOf">>, <<"null">>, <<"String">>, <<>>}

VisitValues ==
    {IF ty = <<"array">> THEN ArrayOf(Schema(<<"string">>))
     ELSE IF ty = <<"object">> THEN Object1(GenKeys[2], Schema(<<>>), NoRequired)
     ELSE Schema(ty) : ty \in VisitTypes}

VisitSchemas == ObjectSchemas(SubSeq(GenKeys, 1, 2), VisitValues, MaxProps)

InitVisit == InitWith(VisitSchemas)

NextVisit == Generate

SpecVisit == InitVisit /\ [][NextVisit]_vars

InTable(ty) == \E i \in 1..Len(TypeAdaptor) : TypeAdaptor[i].key = ty

\* C17: the visitor of a property carries the result of the one handler
\* the table assigns to the property's "type", and no result at all when
\* "type" is missing or not in the table.
C17_DispatchCallsTheTableHandlerOrNone ==
    (pc = "generated" /\ Len(schema.properties) > 0) =>
        LET node == schema.properties[1].val
            name == Sanitize(schema.properties[1].key)
            ty == TypeOf(node)
        IN  /\ ty = <<"object">> =>
                  /\ visit.return_type = name \o <<"Class">>
                  /\ visit.types # <<>> /\ visit.types[1].name = name \o <<"Class">>
            /\ ty = <<"array">> =>
                  /\ Len(visit.return_type) > Len(DefaultNamespace) + 2
                  /\ visit.return_type[Len(DefaultNamespace) + 2] = "Range"
            /\ ty = <<"string">> =>
                  /\ visit.return_type = <<"std::string_view">>
                  /\ visit.adaptor = <<"StringViewAdaptor">>
            /\ ty = <<"integer">> => (visit.integral /\ IsIntType(visit.return_type))
            /\ ty = <<"boolean">> =>
                  (visit.return_type = <<"bool">> /\ visit.adaptor = <<"BoolAdaptor">>)
            /\ ty = <<"number">> =>
                  (visit.return_type = <<"double">> /\ visit.adaptor = <<"DoubleAdaptor">>)
            /\ ty # <<"array">> /\ ty # <<"object">> => visit.types = <<>>
            /\ (ty # <<"integer">> /\ ty # <<"number">>) => ~visit.integral
            /\ ~InTable(ty) =>
                  (visit.return_type = <<>> /\ visit.adaptor = <<>> /\ visit.types = <<>>)

\* C17 witness: "type" is a string that differs from one of the table in
\* the case of a letter only, and nothing was resolved.
C17_Witness ==
    /\ pc = "generated"
    /\ Len(schema.properties) = 2
    /\ TypeOf(schema.properties[1].val) = <<"String">>
    /\ TypeOf(schema.properties[2].val) = <<"string">>
    /\ visit.return_type = <<>>

\* A sequence without its i-th entry.
Drop(seq, i) == SubSeq(seq, 1, i - 1) \o SubSeq(seq, i + 1, Len(seq))

\* C19: with a property whose "type" is missing or not in the table, the
\* text is the text of the schema without that property plus, at the
\* property's place among the accessors, one accessor without result type.
C19_UnresolvedPropertyLeavesTheRestAlone ==
    pc = "generated" =>
        \A i \in 1..Len(schema.properties) :
            ~InTable(TypeOf(schema.properties[i].val)) =>
                LET ms == InOrder(Members(out, "method"))
                    rest == [schema EXCEPT !.properties = Drop(schema.properties, i)]
                IN  /\ Len(ms) = Len(schema.properties)
                    /\ out[ms[i]].return_type = <<>>
                    /\ out[ms[i]].key = schema.properties[i].key
                    /\ Drop(out, ms[i]) = emit_class(rest, ConfigClass, DefaultNamespace, ub)
                    /\ out[1].k = "class" /\ out[Len(out)].k = "end"

\* C19 witness: an unresolved property stands before a property that needs
\* a nested type, and both have their accessors.
C19_Witness ==
    /\ pc = "generated"
    /\ Len(schema.properties) = 2
    /\ ~InTable(TypeOf(schema.properties[1].val))
    /\ TypeOf(schema.properties[2].val) = <<"object">>
    /\ Cardinality(Members(out, "method")) = 2
    /\ Cardinality(Members(out, "class")) = 1

----------------------------------------------------------------------------
(* The driver: main of config-gen.cc.  argv holds the words after the      *)
(* program name; file is the state of the file that -o names: "absent",    *)
(* "old" with the content it had before the run, or "empty" once an        *)
(* std::ofstream was opened on it, which creates or truncates it.  out is  *)
(* what was written to the stream out, the file's or std::cout.            *)

EXIT_FAILURE == 1

OptWord(c) == [k |-> "opt", c |-> c]

ArgWord(v) == [k |-> "arg", v |-> v]

\* The name of an input file: whether libucl can read and parse it, and
\* the schema it holds.
FileWord(readable, o) == [k |-> "file", parses |-> readable, schema |-> o]

MainKey == <<"a", "-", "b">>

MainValues ==
    {Schema(<<"string">>), Schema(<<"boolean">>),
     [Schema(<<"integer">>) EXCEPT !.minimum = Some(Whole(BigOf(0))),
                                   !.maximum = Some(Whole(BigOf(255)))],
     ArrayOf(Schema(<<"string">>)),
     ArrayOf(Object1(MainKey, Schema(<<"string">>), NoRequired)),
     Object1(MainKey, Schema(<<"string">>), Required(<<MainKey>>))}

MainSchemas ==
    {Object1(MainKey, v, rq) : v \in MainValues, rq \in {NoRequired, Required(<<MainKey>>)}}
    \cup {[Schema(<<"object">>) EXCEPT !.description = SomeText(<<Quote, "a", Backslash>>)]}

MainNamespaces == {<<"ns", "::">>, <<"ns">>}

MainClasses == {<<"Settings">>}

\* The command lines: options first, each at most once, then at most one
\* input file.
OptionWords(c, v) == {<<>>, <<OptWord(c), ArgWord(v)>>}

Argvs ==
    {c \o d \o e \o o \o in :
        c \in UNION {OptionWords("c", n) : n \in MainClasses},
        d \in UNION {OptionWords("d", n) : n \in MainNamespaces},
        e \in {<<>>, <<OptWord("e")>>},
        o \in OptionWords("o", <<"out.h">>),
        in \in {<<>>, <<FileWord(FALSE, NoNode)>>}
                 \cup {<<FileWord(TRUE, s)>> : s \in MainSchemas}}

InitMain ==
    /\ pc = "main"
    /\ ub \in UBOutcomes
    /\ schema = NoNode
    /\ visit = NewVisitor(DefaultNamespace)
    /\ out = <<>>
    /\ docv = NoNode
    /\ call = <<>>
    /\ recv = NoNode
    /\ got = NoNode
    /\ NoRange
    /\ NoFactory
    /\ argv \in Argvs
    /\ configNamespace = DefaultNamespace
    /\ configClass = ConfigClass
    /\ embedSchema = FALSE
    /\ file_out = FALSE
    /\ file \in {"absent", "old"}
    /\ status = NoNode

\* The switch on the option getopt_long returned, optarg being its
\* argument.
OptionCase(st, c, optarg) ==
    CASE c = "c" -> [st EXCEPT !.configClass = optarg]
      [] c = "d" -> [st EXCEPT !.configNamespace = optarg]
      [] c = "e" -> [st EXCEPT !.embedSchema = TRUE]
      [] c = "o" -> [st EXCEPT !.file_out = TRUE, !.file = "empty"]
      [] OTHER -> st

\* while ((c = getopt_long(argc, argv, "d:ec:o:", ...)) != -1) from word
\* optind on; the loop ends at the first word that is no option.
RECURSIVE getopt_loop(_, _)
getopt_loop(words, st) ==
    IF st.optind > Len(words) \/ words[st.optind].k # "opt" THEN st
    ELSE LET c == words[st.optind].c
         IN  IF c = "e"
             THEN getopt_loop(words, OptionCase([st EXCEPT !.optind = @ + 1], c, NoNode))
             ELSE IF st.optind + 1 > Len(words) THEN [st EXCEPT !.optind = @ + 1]
             ELSE getopt_loop(words, OptionCase([st EXCEPT !.optind = @ + 2], c,
                                                words[st.optind + 1].v))

MainStep == UNCHANGED <<ub, docv, call, recv, got, rangeVars, ptrVars, factoryVars>>

\* if (argc > 2) { the option loop }  argc -= optind; argv += optind;
\* optind counts the program name, and is 1 when getopt never ran.
ParseOptions ==
    /\ pc = "main"
    /\ LET st0 == [optind |-> 1, configClass |-> configClass,
                   configNamespace |-> configNamespace, embedSchema |-> embedSchema,
                   file_out |-> file_out, file |-> file]
           st == IF Len(argv) + 1 > 2 THEN getopt_loop(argv, st0) ELSE st0
       IN  /\ configClass' = st.configClass
           /\ configNamespace' = st.configNamespace
           /\ embedSchema' = st.embedSchema
           /\ file_out' = st.file_out
           /\ file' = st.file
           /\ argv' = SubSeq(argv, st.optind, Len(argv))
    /\ pc' = "args"
    /\ UNCHANGED <<schema, visit, out, status>>
    /\ MainStep

\* if (argc < 1) return -1;
NoInput ==
    /\ pc = "args"
    /\ Len(argv) < 1
    /\ status' = -1
    /\ pc' = "exit"
    /\ UNCHANGED <<schema, visit, out, mainVarsButStatus>>
    /\ MainStep

\* ucl_parser_add_file(p, in_filename) and ucl_parser_get_error(p): a word
\* that names no readable file of valid syntax leaves an error.
ucl_parser_get_error(in_filename) == ~(in_filename.k = "file" /\ in_filename.parses)

ParseError ==
    /\ pc = "args"
    /\ Len(argv) >= 1
    /\ ucl_parser_get_error(argv[1])
    /\ status' = EXIT_FAILURE
    /\ pc' = "exit"
    /\ UNCHANGED <<schema, visit, out, mainVarsButStatus>>
    /\ MainStep

\* Root conf(ucl_parser_get_object(p));
ParseSchema ==
    /\ pc = "args"
    /\ Len(argv) >= 1
    /\ ~ucl_parser_get_error(argv[1])
    /\ schema' = argv[1].schema
    /\ pc' = "parsed"
    /\ UNCHANGED <<visit, out, status, mainVarsButStatus>>
    /\ MainStep

HeadersToken == [k |-> "headers"]

FooterToken == [k |-> "footer"]

\* The text of make_config: the class it returns and the literal it parses.
FactoryToken(name, o) ==
    [k |-> "factory", name |-> name,
     embeddedSchema |->
         EscapeAsCString(JsonEmitString(IF o.description.some THEN o.description.val
                                        ELSE <<>>))]

\* out << "#include \"config-generic.h\"\n\n" ... CONFIG_NAMESPACE_BEGIN
WriteHeaders ==
    /\ pc = "parsed"
    /\ out' = Append(out, HeadersToken)
    /\ pc' = "headers"
    /\ UNCHANGED <<schema, visit, status, mainVarsButStatus>>
    /\ MainStep

\* emit_class(conf, configClass, out);
EmitClass ==
    /\ pc = "headers"
    /\ out' = out \o emit_class(schema, configClass, configNamespace, ub)
    /\ visit' = IF Len(schema.properties) = 0 THEN visit
                 ELSE VisitSchema(schema.properties[1].val,
                                  Sanitize(schema.properties[1].key), configNamespace, ub)
    /\ pc' = "class"
    /\ UNCHANGED <<schema, status, mainVarsButStatus>>
    /\ MainStep

\* if (embedSchema) { out << "inline std::variant<" ... }
EmitFactory ==
    /\ pc = "class"
    /\ embedSchema
    /\ out' = Append(out, FactoryToken(configClass, schema))
    /\ pc' = "factory"
    /\ UNCHANGED <<schema, visit, status, mainVarsButStatus>>
    /\ MainStep

\* out << "#ifdef CONFIG_NAMESPACE_END ..."; main ends and returns 0.
Return ==
    /\ \/ pc = "class" /\ ~embedSchema
       \/ pc = "factory"
    /\ out' = Append(out, FooterToken)
    /\ status' = 0
    /\ pc' = "exit"
    /\ UNCHANGED <<schema, visit, mainVarsButStatus>>
    /\ MainStep

NextMain ==
    \/ ParseOptions
    \/ NoInput
    \/ ParseError
    \/ ParseSchema
    \/ WriteHeaders
    \/ EmitClass
    \/ EmitFactory
    \/ Return

SpecMain == InitMain /\ [][NextMain]_vars

\* C16: a run that ends with a failure to parse the schema has a nonzero
\* exit status, has written nothing, and has left the file that the output
\* option names as it was, neither created nor truncated; and text is only
\* ever written once the schema has been parsed.
C16_ParseFailureLeavesNoOutput ==
    /\ (pc = "exit" /\ schema = NoNode /\ status = EXIT_FAILURE) =>
           (status # 0 /\ out = <<>> /\ file \in {"absent", "old"})
    /\ out # <<>> => schema # NoNode

\* The symbols of config-generic.h that generated text names.
LibrarySymbols ==
    {"UCLPtr", "make_optional", "Range", "StringViewAdaptor", "BoolAdaptor", "DoubleAdaptor"}
        \cup {IntTypes[i].a[1] : i \in 1..Len(IntTypes)}

\* A namespace prefix without the scope separators at its end.
RECURSIVE StripSeparators(_)
StripSeparators(p) ==
    IF p # <<>> /\ p[Len(p)] = "::" THEN StripSeparators(SubSeq(p, 1, Len(p) - 1)) ELSE p

\* In text, the symbol at position j stands right behind the prefix and one
\* scope separator.
QualifiedOnce(text, j, prefix) ==
    LET p == StripSeparators(prefix)
    IN  /\ j - 1 - Len(p) >= 1
        /\ text[j - 1] = "::"
        /\ SubSeq(text, j - 1 - Len(p), j - 2) = p

AllQualified(text, prefix) ==
    \A j \in 1..Len(text) : text[j] \in LibrarySymbols => QualifiedOnce(text, j, prefix)

\* C20: in the text of a finished run every name of a library symbol
\* stands behind the configured namespace prefix and exactly one scope
\* separator, and an accessor of a generated nested type names it without
\* any prefix.
C20_LibraryReferencesQualifiedOnce ==
    (pc = "exit" /\ status = 0) =>
        \A i \in 1..Len(out) :
            /\ out[i].k = "class" => AllQualified(out[i].handle, configNamespace)
            /\ out[i].k = "method" =>
                  /\ AllQualified(out[i].maker, configNamespace)
                  /\ AllQualified(out[i].adaptorNamespace \o out[i].adaptor, configNamespace)
                  /\ AllQualified(out[i].return_type, configNamespace)
                  /\ (out[i].adaptor # <<>> /\ out[i].adaptor[Len(out[i].adaptor)] = "Class") =>
                        /\ out[i].adaptorNamespace = <<>>
                        /\ out[i].return_type = out[i].adaptor
                        /\ \A j \in 1..Len(out[i].adaptor) : out[i].adaptor[j] # "::"

====
